---- MODULE Spec2Model ----
(***************************************************************************)
(* Model of hyprland-per-window-layout: the supervisor loop of main, one   *)
(* pipeline attempt of processHyprlandEvents (connect, discover, stream),  *)
(* the event parser of hypr.Client.ReadEvent and the layout discovery of   *)
(* hypr.Client.ReadLayouts.                                                *)
(*                                                                         *)
(* A Go string is a sequence of atoms.  ">" and "," are atoms of their     *)
(* own; every other atom is a run of characters holding neither, so that   *)
(* strings.Split on ">>" and on "," is computed on the atoms exactly as Go *)
(* computes it on the bytes.  The empty string is << >>.                   *)
(***************************************************************************)
EXTENDS Integers, Sequences, FiniteSets, TLC

VARIABLES
    pc,               \* position of the process: connect, discover, stream, failed, terminated (parse, parsed: parser alone)
    retry,            \* main: retry
    lastWait,         \* main: the duration last waited in <-time.After(retryWait[retry]), in ms (0: none yet)
    failRun,          \* history: attempts that returned an error since resetRetry was last called
    exit,             \* how the process ended: none, exhausted (panic(err) in main), crash (run-time panic)
    err,              \* the error the current attempt returned: none, signature, dial, discover, read, switch
    device,           \* the layout index active on the keyboards (hyprctl switchxkblayout all <i>)
    layouts,          \* processHyprlandEvents: layouts, the result of ReadLayouts
    currentWindowId,  \* processHyprlandEvents: currentWindowId
    currentLayout,    \* processHyprlandEvents: currentLayout
    layoutMap,        \* processHyprlandEvents: layoutMap
    trace,            \* history: the lines read from the socket in this attempt
    evt,              \* the Event last returned by ReadEvent
    cmds,             \* history: the indexes of the switch commands issued in this attempt (by the event loop; by ReadLayouts where discovery runs alone)
    keyboards,        \* the keyboards hyprctl reports, where discovery runs alone
    queue,            \* the lines the compositor wrote to the socket and the tracker has not read yet
    focused,          \* compositor: the window that has the focus
    changes           \* history: the pairs <<w, i>> such that the layout changed to index i while window w had the focus

vars == <<pc, retry, lastWait, failRun, exit, err, device, layouts,
          currentWindowId, currentLayout, layoutMap, trace, evt, cmds,
          keyboards, queue, focused, changes>>

(***************************************************************************)
(* Bounds                                                                  *)
(***************************************************************************)
\* lines one attempt reads before its connection is lost
MaxEvents == 4
\* length, in atoms, of the lines the parser is run on
MaxLineLen == 5

(***************************************************************************)
(* Strings                                                                 *)
(***************************************************************************)
Min(S) == CHOOSE x \in S : \A y \in S : x <= y
Max(S) == CHOOSE x \in S : \A y \in S : x >= y
Last(s) == s[Len(s)]

Delim == <<">", ">">>
Comma == <<",">>
EmptyString == << >>

\* strings.Index: the 1-based position of the first occurrence of sep in s, 0 when there is none
Index(s, sep) ==
    LET ps == {p \in 1..(Len(s) - Len(sep) + 1) : SubSeq(s, p, p + Len(sep) - 1) = sep}
    IN  IF ps = {} THEN 0 ELSE Min(ps)

\* strings.Split(s, sep), sep not empty: cut at every occurrence of sep, left to right
RECURSIVE Split(_, _)
Split(s, sep) ==
    LET i == Index(s, sep)
    IN  IF i = 0
        THEN <<s>>
        ELSE <<SubSeq(s, 1, i - 1)>> \o Split(SubSeq(s, i + Len(sep), Len(s)), sep)

(***************************************************************************)
(* hypr.Client.ReadEvent on a line that was read                           *)
(***************************************************************************)
NoEvent == [Name |-> EmptyString, Args |-> << >>]

\* evtParts[1] exists
HasSecondPart(evtParts) == Len(evtParts) >= 2

\* the outcome of ReadEvent on the line data: an event, an error, or a run-time panic
ReadEvent(data) ==
    LET evtParts == Split(data, Delim)
    IN  IF Len(evtParts) = 0
        THEN [kind |-> "error", evt |-> NoEvent]
        ELSE IF ~HasSecondPart(evtParts)
        THEN [kind |-> "panic", evt |-> NoEvent]
        ELSE [kind |-> "ok",
              evt  |-> [Name |-> evtParts[1], Args |-> Split(evtParts[2], Comma)]]

(***************************************************************************)
(* The keyboards hyprctl reports, and hypr.Client.ReadLayouts              *)
(***************************************************************************)
En == <<"en">>
Us == <<"us">>

\* a keyboard: its configured short names, the keymap name it reports at each layout index, its main flag
KbMain == [Layout |-> <<"e", ",", "u">>, Keymaps |-> <<En, Us>>, Main |-> TRUE]
KbAux  == [Layout |-> <<"e", ",", "u">>, Keymaps |-> <<<<"aux-en">>, <<"aux-us">>>>, Main |-> FALSE]
KbAux2 == [Layout |-> <<"e", ",", "u">>, Keymaps |-> <<En, Us>>, Main |-> FALSE]

\* the keyboard sets an attempt may find
Configs == {<<KbMain>>, <<KbAux, KbMain>>, <<KbAux2, KbAux>>, << >>}

\* the answer of `hyprctl devices -j` while layout index d is active
DevicesResponse(kbs, d) ==
    [k \in 1..Len(kbs) |->
        [Layout |-> kbs[k].Layout, ActiveKeymap |-> kbs[k].Keymaps[d + 1], Main |-> kbs[k].Main]]

HasMain(response) == \E k \in 1..Len(response) : response[k].Main
FirstMain(response) == response[Min({k \in 1..Len(response) : response[k].Main})]

\* mainKb: the first keyboard flagged main, the first keyboard when none is
MainKb(response) == IF HasMain(response) THEN FirstMain(response) ELSE response[1]

\* len(layoutsShorts)
NumLayouts(kbs, d) == Len(Split(MainKb(DevicesResponse(kbs, d)).Layout, Comma))

\* result[i] after the scan loop (1-based position i + 1)
ScanName(kbs, i) ==
    LET response == DevicesResponse(kbs, i)
    IN  IF HasMain(response) THEN FirstMain(response).ActiveKeymap ELSE EmptyString

\* activeLayoutIdx after the scan loop, the device being on index d before it
ActiveLayoutIdx(kbs, d) ==
    LET before  == MainKb(DevicesResponse(kbs, d)).ActiveKeymap
        matches == {i \in 0..(NumLayouts(kbs, d) - 1) :
                        /\ HasMain(DevicesResponse(kbs, i))
                        /\ FirstMain(DevicesResponse(kbs, i)).ActiveKeymap = before}
    IN  IF matches = {} THEN -1 ELSE Max(matches)

\* ReadLayouts with every hyprctl call succeeding: the list returned and the index the device is left on
ReadLayouts(kbs, d) ==
    LET n == NumLayouts(kbs, d)
        a == ActiveLayoutIdx(kbs, d)
    IN  [result |-> [i \in 1..n |-> ScanName(kbs, i - 1)],
         device |-> IF a = -1 THEN n - 1 ELSE a]

(***************************************************************************)
(* processHyprlandEvents: the tracker                                      *)
(***************************************************************************)
defaultLayout == 0
UnsetLayout == -1
EmptyMap == [w \in {} |-> 0]

\* layoutToIndex[name]: the last index holding the name, Go's zero value when there is none
LayoutToIndex(ls, name) ==
    LET is == {i \in 1..Len(ls) : ls[i] = name}
    IN  IF is = {} THEN 0 ELSE Max(is) - 1

\* as WindowLayout, an unknown window falling back to index 1
WindowLayoutOne(map, w) == IF w \in DOMAIN map THEN map[w] ELSE 1

\* windowLayout, known := layoutMap[w]; if !known { windowLayout = defaultLayout }
WindowLayout(map, w) == IF w \in DOMAIN map THEN map[w] ELSE defaultLayout

\* as SameWindow, the duplicate focus never recognised
SameWindowNever(cur, new) == FALSE

\* if currentWindowId == newWindowId { continue }
SameWindow(cur, new) == cur = new

\* as SkipSwitch, the command issued whatever the current layout
SkipSwitchNever(windowLayout, cur) == FALSE

\* if windowLayout == currentLayout { continue }
SkipSwitch(windowLayout, cur) == windowLayout = cur

\* as WindowUnset, the event attributed even when no window is current
WindowUnsetNever(cur) == FALSE

\* if currentWindowId == "" { continue }
WindowUnset(cur) == cur = EmptyString

\* as NewLayoutMap, the map of the attempt before kept
KeptLayoutMap(old) == old

\* layoutMap := make(map[string]int, 0)
NewLayoutMap(old) == EmptyMap

\* as MapSet, a window's first entry never overwritten
MapSetFirstWins(map, w, l) == [x \in (DOMAIN map) \cup {w} |-> IF x \in DOMAIN map THEN map[x] ELSE l]

\* layoutMap[w] = l
MapSet(map, w, l) == [x \in (DOMAIN map) \cup {w} |-> IF x = w THEN l ELSE map[x]]

ActiveLayoutName == <<"activelayout">>
ActiveWindowName == <<"activewindowv2">>

LineW1     == <<"activewindowv2", ">", ">", "W1">>
LineW2     == <<"activewindowv2", ">", ">", "W2">>
LineWEmpty == <<"activewindowv2", ">", ">">>
LineUs     == <<"activelayout", ">", ">", "us">>
LineEn     == <<"activelayout", ">", ">", "kb", ",", "en">>
LineZz     == <<"activelayout", ">", ">", "zz">>
LineOther  == <<"workspace", ">", ">", "1">>
LineBad    == <<"garbage">>

\* the lines the socket may deliver
Lines == {LineW1, LineW2, LineWEmpty, LineUs, LineEn, LineZz, LineOther, LineBad}

(***************************************************************************)
(* main: the retry loop                                                    *)
(***************************************************************************)
\* retryWait, in milliseconds
retryWait == <<500, 1000, 2000, 4000>>

\* if retry >= len(retryWait) { panic(err) }
RetryExhausted(r) == r >= Len(retryWait)

\* as BackoffWait, every wait the first of the table
BackoffWaitFirst(r) == retryWait[1]

\* retryWait[retry]
BackoffWait(r) == retryWait[r + 1]

\* retry += 1
NextRetry(r) == r + 1

\* resetRetry
ResetRetry == 0

Init ==
    /\ pc = "connect"
    /\ retry = 0
    /\ lastWait = 0
    /\ failRun = 0
    /\ exit = "none"
    /\ err = "none"
    /\ device \in 0..1
    /\ layouts = << >>
    /\ currentWindowId = EmptyString
    /\ currentLayout = UnsetLayout
    /\ layoutMap = EmptyMap
    /\ trace = << >>
    /\ evt = NoEvent
    /\ cmds = << >>
    /\ keyboards = << >>
    /\ queue = << >>
    /\ focused = EmptyString
    /\ changes = {}

supervisorVars == <<retry, lastWait, exit>>
envVars == <<keyboards, queue, focused, changes>>
trackerVars == <<currentWindowId, currentLayout, layoutMap>>

\* hypr.NewClient succeeds: a new attempt has its connection
Connect ==
    /\ pc = "connect"
    /\ pc' = "discover"
    /\ err' = "none"
    /\ trace' = << >>
    /\ evt' = NoEvent
    /\ cmds' = << >>
    /\ UNCHANGED <<supervisorVars, failRun, device, layouts, trackerVars>>
    /\ UNCHANGED envVars

\* hypr.NewClient returns an error: no signature in the environment, or the socket cannot be dialled
ConnectFail ==
    /\ pc = "connect"
    /\ pc' = "failed"
    /\ \E e \in {"signature", "dial"} : err' = e
    /\ failRun' = failRun + 1
    /\ trace' = << >>
    /\ evt' = NoEvent
    /\ cmds' = << >>
    /\ UNCHANGED <<supervisorVars, device, layouts, trackerVars>>
    /\ UNCHANGED envVars

\* ReadLayouts returns the list; layoutToIndex is built and the tracker's variables are initialised
Discover ==
    /\ pc = "discover"
    /\ \E kbs \in Configs :
        /\ Len(kbs) > 0
        /\ layouts' = ReadLayouts(kbs, device).result
        /\ device' = ReadLayouts(kbs, device).device
    /\ currentWindowId' = EmptyString
    /\ currentLayout' = UnsetLayout
    /\ layoutMap' = NewLayoutMap(layoutMap)
    /\ pc' = "stream"
    /\ UNCHANGED <<supervisorVars, failRun, err, trace, evt, cmds>>
    /\ UNCHANGED envVars

\* a hyprctl call of ReadLayouts fails, after the device was switched to none, some or all of the indexes
DiscoverFail ==
    /\ pc = "discover"
    /\ \E kbs \in Configs :
        /\ Len(kbs) > 0
        /\ \E d \in {device} \cup (0..(NumLayouts(kbs, device) - 1)) : device' = d
    /\ pc' = "failed"
    /\ err' = "discover"
    /\ failRun' = failRun + 1
    /\ UNCHANGED <<supervisorVars, layouts, trackerVars, trace, evt, cmds>>
    /\ UNCHANGED envVars

\* hyprctl reports no keyboard: response.Keyboards[0] is out of range
DiscoverPanic ==
    /\ pc = "discover"
    /\ \E kbs \in Configs : Len(kbs) = 0
    /\ pc' = "terminated"
    /\ exit' = "crash"
    /\ UNCHANGED <<retry, lastWait, failRun, err, device, layouts, trackerVars, trace, evt, cmds>>
    /\ UNCHANGED envVars

\* client.ReadEvent returns an error: the connection is lost
ReadFail ==
    /\ pc = "stream"
    /\ pc' = "failed"
    /\ err' = "read"
    /\ failRun' = failRun + 1
    /\ UNCHANGED <<supervisorVars, device, layouts, trackerVars, trace, evt, cmds>>
    /\ UNCHANGED envVars

\* a line arrives on which ReadEvent does not return
ReadPanic ==
    /\ pc = "stream"
    /\ Len(trace) < MaxEvents
    /\ \E data \in Lines :
        /\ ReadEvent(data).kind = "panic"
        /\ trace' = Append(trace, data)
    /\ pc' = "terminated"
    /\ exit' = "crash"
    /\ UNCHANGED <<retry, lastWait, failRun, err, device, layouts, trackerVars, evt, cmds>>
    /\ UNCHANGED envVars

\* one iteration of the event loop on an activelayout event
OnActiveLayout ==
    /\ pc = "stream"
    /\ Len(trace) < MaxEvents
    /\ \E data \in Lines :
        /\ ReadEvent(data).kind = "ok"
        /\ ReadEvent(data).evt.Name = ActiveLayoutName
        /\ trace' = Append(trace, data)
        /\ evt' = ReadEvent(data).evt
        /\ LET idx == LayoutToIndex(layouts, Last(ReadEvent(data).evt.Args))
           IN  /\ device' = idx
               /\ IF WindowUnset(currentWindowId)
                  THEN UNCHANGED <<currentLayout, layoutMap>>
                  ELSE /\ currentLayout' = idx
                       /\ layoutMap' = MapSet(layoutMap, currentWindowId, idx)
    /\ retry' = ResetRetry
    /\ failRun' = 0
    /\ UNCHANGED <<pc, lastWait, exit, err, layouts, currentWindowId, cmds>>
    /\ UNCHANGED envVars

\* one iteration of the event loop on an activewindowv2 event; ok: whether hyprctl switchxkblayout succeeds
OnActiveWindow ==
    /\ pc = "stream"
    /\ Len(trace) < MaxEvents
    /\ \E data \in Lines, ok \in BOOLEAN :
        /\ ReadEvent(data).kind = "ok"
        /\ ReadEvent(data).evt.Name = ActiveWindowName
        /\ trace' = Append(trace, data)
        /\ evt' = ReadEvent(data).evt
        /\ LET newWindowId  == Last(ReadEvent(data).evt.Args)
               windowLayout == WindowLayout(layoutMap, newWindowId)
           IN  IF SameWindow(currentWindowId, newWindowId)
               THEN /\ failRun' = 0
                    /\ UNCHANGED <<pc, err, device, currentWindowId, cmds>>
               ELSE /\ currentWindowId' = newWindowId
                    /\ IF SkipSwitch(windowLayout, currentLayout)
                       THEN /\ failRun' = 0
                            /\ UNCHANGED <<pc, err, device, cmds>>
                       ELSE /\ cmds' = Append(cmds, windowLayout)
                            /\ IF ok
                               THEN /\ device' = windowLayout
                                    /\ failRun' = 0
                                    /\ UNCHANGED <<pc, err>>
                               ELSE /\ pc' = "failed"
                                    /\ err' = "switch"
                                    /\ failRun' = 1
                                    /\ UNCHANGED device
    /\ retry' = ResetRetry
    /\ UNCHANGED <<lastWait, exit, layouts, currentLayout, layoutMap>>
    /\ UNCHANGED envVars

\* one iteration of the event loop on an event of any other name
OnOtherEvent ==
    /\ pc = "stream"
    /\ Len(trace) < MaxEvents
    /\ \E data \in Lines :
        /\ ReadEvent(data).kind = "ok"
        /\ ReadEvent(data).evt.Name \notin {ActiveLayoutName, ActiveWindowName}
        /\ trace' = Append(trace, data)
        /\ evt' = ReadEvent(data).evt
    /\ retry' = ResetRetry
    /\ failRun' = 0
    /\ UNCHANGED <<pc, lastWait, exit, err, device, layouts, trackerVars, cmds>>
    /\ UNCHANGED envVars

\* main, after processHyprlandEvents returned an error: give up, or wait and start the next attempt
HandleFailure ==
    /\ pc = "failed"
    /\ IF RetryExhausted(retry)
       THEN /\ pc' = "terminated"
            /\ exit' = "exhausted"
            /\ UNCHANGED <<retry, lastWait>>
       ELSE /\ lastWait' = BackoffWait(retry)
            /\ retry' = NextRetry(retry)
            /\ pc' = "connect"
            /\ UNCHANGED exit
    /\ UNCHANGED <<failRun, err, device, layouts, trackerVars, trace, evt, cmds>>
    /\ UNCHANGED envVars

Next ==
    \/ Connect
    \/ ConnectFail
    \/ Discover
    \/ DiscoverFail
    \/ DiscoverPanic
    \/ ReadFail
    \/ ReadPanic
    \/ OnActiveLayout
    \/ OnActiveWindow
    \/ OnOtherEvent
    \/ HandleFailure

Spec == Init /\ [][Next]_vars

\* the process never stops of its own accord: every call returns and main loops
FairSpec == Spec /\ WF_vars(Next)

(***************************************************************************)
(* The parser alone: ReadEvent on every line of a bounded alphabet         *)
(***************************************************************************)
ParseAtoms == {">", ",", "a"}
LineNameABC   == <<"NAME", ">", ">", "A", ",", "B", ",", "C">>
LineNameEmpty == <<"NAME", ">", ">">>
LineTwoDelims == <<"a", ">", ">", "b", ">", ">", "c">>
ParseLines ==
    UNION {[1..n -> ParseAtoms] : n \in 0..MaxLineLen}
        \cup {LineNameABC, LineNameEmpty, LineTwoDelims}

InitParse ==
    /\ pc = "parse"
    /\ retry = 0
    /\ lastWait = 0
    /\ failRun = 0
    /\ exit = "none"
    /\ err = "none"
    /\ device = 0
    /\ layouts = << >>
    /\ currentWindowId = EmptyString
    /\ currentLayout = UnsetLayout
    /\ layoutMap = EmptyMap
    /\ trace = << >>
    /\ evt = NoEvent
    /\ cmds = << >>
    /\ keyboards = << >>
    /\ queue = << >>
    /\ focused = EmptyString
    /\ changes = {}

\* ReadEvent returns the event of the line that arrived
ParseLine ==
    /\ pc = "parse"
    /\ \E data \in ParseLines :
        /\ ReadEvent(data).kind = "ok"
        /\ trace' = <<data>>
        /\ evt' = ReadEvent(data).evt
    /\ pc' = "parsed"
    /\ UNCHANGED <<supervisorVars, failRun, err, device, layouts, trackerVars, cmds>>
    /\ UNCHANGED envVars

\* ReadEvent does not return: evtParts[1] is out of range
ParsePanic ==
    /\ pc = "parse"
    /\ \E data \in ParseLines :
        /\ ReadEvent(data).kind = "panic"
        /\ trace' = <<data>>
    /\ pc' = "terminated"
    /\ exit' = "crash"
    /\ UNCHANGED <<retry, lastWait, failRun, err, device, layouts, trackerVars, evt, cmds>>
    /\ UNCHANGED envVars

NextParse == ParseLine \/ ParsePanic

SpecParse == InitParse /\ [][NextParse]_vars

(***************************************************************************)
(* Vocabulary of the properties                                            *)
(***************************************************************************)
\* the step reads one more line in the running attempt
EventStep == pc = "stream" /\ Len(trace') = Len(trace) + 1

\* the line carries the delimiter ">>"
ContainsDelim(data) == \E p \in 1..(Len(data) - 1) : data[p] = ">" /\ data[p + 1] = ">"

\* the position of the first ">>" of a line that carries one
FirstDelim(data) == Min({p \in 1..(Len(data) - 1) : data[p] = ">" /\ data[p + 1] = ">"})
TextBefore(data) == SubSeq(data, 1, FirstDelim(data) - 1)
TextAfter(data) == SubSeq(data, FirstDelim(data) + 2, Len(data))

\* the text cut at every ","
RECURSIVE CutAtCommas(_)
CutAtCommas(s) ==
    IF \E p \in 1..Len(s) : s[p] = ","
    THEN LET p == Min({q \in 1..Len(s) : s[q] = ","})
         IN  <<SubSeq(s, 1, p - 1)>> \o CutAtCommas(SubSeq(s, p + 1, Len(s)))
    ELSE <<s>>

\* the line is a focus notification, and the window it names
IsFocusLine(data) == ContainsDelim(data) /\ TextBefore(data) = ActiveWindowName
FocusId(data) == Last(CutAtCommas(TextAfter(data)))

\* the layout recorded for window w, index 0 when none is
Target(map, w) == IF w \in DOMAIN map THEN map[w] ELSE 0

\* the lines of this attempt that were processed to the end of their loop iteration
Processed ==
    Len(trace) - (IF err = "switch" \/ (trace # << >> /\ ~ContainsDelim(Last(trace))) THEN 1 ELSE 0)

(***************************************************************************)
(* C1..C10                                                                 *)
(***************************************************************************)

\* C1: a focus event for a window other than the current one, processed without
\* error, leaves the device on the layout recorded for that window, on layout 0
\* when none is recorded.
C1_FocusRestoresLayout ==
    [][(/\ EventStep
        /\ IsFocusLine(Last(trace'))
        /\ FocusId(Last(trace')) # currentWindowId
        /\ pc' = "stream")
            => device' = Target(layoutMap', FocusId(Last(trace')))]_vars

E2EEvents == <<LineW1, LineUs, LineW2, LineW1>>

\* C2: with the layout table en, us and a fresh tracker, the events W1 focused,
\* layout us, W2 focused, W1 focused issue exactly the commands switch-to-0,
\* switch-to-0, switch-to-1.
C2_EndToEndCommands ==
    (pc = "stream" /\ layouts = <<En, Us>> /\ trace = E2EEvents) => cmds = <<0, 0, 1>>

\* C3: a focus event naming the current window issues no command and changes
\* neither the current window, the current layout nor the map.
C3_DuplicateFocusNoOp ==
    [][(/\ EventStep
        /\ IsFocusLine(Last(trace'))
        /\ FocusId(Last(trace')) = currentWindowId)
            => (/\ cmds' = cmds
                /\ currentWindowId' = currentWindowId
                /\ currentLayout' = currentLayout
                /\ layoutMap' = layoutMap
                /\ device' = device
                /\ pc' = "stream")]_vars

\* the same focus line was read twice in a row, and the attempt goes on
C3_Witness ==
    /\ pc = "stream"
    /\ Len(trace) >= 2
    /\ trace[Len(trace)] = LineW1
    /\ trace[Len(trace) - 1] = LineW1
    /\ cmds = <<0>>

\* C4: a focus event whose target layout is the current layout issues no
\* command, whether the window changed or not; every command issued carries an
\* index other than the current layout.
C4_NoRedundantSwitch ==
    [][/\ (/\ EventStep
           /\ IsFocusLine(Last(trace'))
           /\ Target(layoutMap, FocusId(Last(trace'))) = currentLayout)
                => cmds' = cmds
       /\ (Len(cmds') = Len(cmds) + 1) => Last(cmds') # currentLayout]_vars

\* the focus moved from W1 to W2 while layout 0 was current and W2 wants layout 0
C4_Witness ==
    /\ pc = "stream"
    /\ trace = <<LineW1, LineEn, LineW2>>
    /\ currentLayout = 0
    /\ currentWindowId = <<"W2">>
    /\ cmds = <<0>>

\* C5: a focus event that changes the current window to one with no recorded
\* layout issues switch-to-0 when the current layout is not 0 (the unset value
\* included), and no command when it is 0.
C5_DefaultFallback ==
    [][(/\ EventStep
        /\ IsFocusLine(Last(trace'))
        /\ FocusId(Last(trace')) # currentWindowId
        /\ FocusId(Last(trace')) \notin DOMAIN layoutMap)
            => cmds' = (IF currentLayout # 0 THEN Append(cmds, 0) ELSE cmds)]_vars

\* unseen W1 was focused with the layout unset, then unseen W2 with layout 1 current
C5_Witness ==
    /\ pc = "stream"
    /\ trace = <<LineW1, LineUs, LineW2>>
    /\ currentLayout = 1
    /\ cmds = <<0, 0>>

\* C6: a line without ">>" makes ReadEvent return an error: the attempt fails
\* as on a lost connection and the process does not end there.
C6_MalformedLineIsReadError ==
    (trace # << >> /\ ~ContainsDelim(Last(trace))) => (exit # "crash" /\ err = "read")

\* C7: for a line that carries ">>", the name is the text before the first ">>"
\* and the arguments are the text after it, cut at every ","; NAME>>A,B,C gives
\* NAME and A, B, C; NAME>> gives one empty argument.
C7_ParseAtFirstDelimiter ==
    (pc # "parse" /\ ContainsDelim(trace[1])) =>
        /\ pc = "parsed"
        /\ evt.Name = TextBefore(trace[1])
        /\ evt.Args = CutAtCommas(TextAfter(trace[1]))
        /\ trace[1] = LineNameABC =>
                evt = [Name |-> <<"NAME">>, Args |-> <<<<"A">>, <<"B">>, <<"C">>>>]
        /\ trace[1] = LineNameEmpty => evt.Args = <<EmptyString>>

\* C8: after the k-th failure in a row, k in 1..4, the wait is the k-th of
\* 500, 1000, 2000, 4000 ms, longer than the one before; the 5th failure in a
\* row starts no attempt and ends the process.
C8_BackoffSequence ==
    /\ failRun \in 0..5
    /\ (failRun \in 1..4 /\ pc # "failed") => lastWait = <<500, 1000, 2000, 4000>>[failRun]
    /\ (failRun \in 2..4 /\ pc = "failed") => lastWait = <<500, 1000, 2000, 4000>>[failRun - 1]
    /\ failRun = 5 => pc \in {"failed", "terminated"}
    /\ (failRun = 5 /\ pc = "terminated") => exit = "exhausted"
    /\ exit = "exhausted" => (failRun = 5 /\ lastWait = 4000)

\* five attempts failed in a row and the process ended
C8_Witness == pc = "terminated" /\ exit = "exhausted" /\ failRun = 5 /\ lastWait = 4000

\* C9: the backoff position is reset when, and only when, an event was
\* processed to the end without error; an attempt that fails before that
\* leaves the position as it was.
C9_ResetOnlyOnProcessedEvent ==
    [][/\ (EventStep /\ pc' = "stream") => retry' = 0
       /\ (retry # 0 /\ retry' = 0) => (EventStep /\ pc' = "stream")]_vars

\* C10: when no attempt ever processes an event to the end, the process
\* terminates.
C10_BoundedRetry == [](Processed = 0) => <>(pc = "terminated")

(***************************************************************************)
(* C11, C14..C18: the supervisor and the tracker                           *)
(***************************************************************************)

\* C11: an attempt that fails for want of the session signature ends the
\* process at once: no backoff wait, no further attempt.
C11_MissingSignatureFatal ==
    [][(pc = "failed" /\ err = "signature")
            => (pc' = "terminated" /\ lastWait' = lastWait /\ retry' = retry)]_vars

\* C14: an attempt enters its event loop only out of discovery, and enters it
\* with the map empty, no current window, the layout unset and nothing read or
\* issued; discovery is entered only from the start of an attempt.
C14_FreshAttempt ==
    [][/\ (pc' = "stream" /\ pc # "stream") =>
            /\ pc = "discover"
            /\ DOMAIN layoutMap' = {}
            /\ currentWindowId' = << >>
            /\ currentLayout' = -1
            /\ trace' = << >>
            /\ cmds' = << >>
       /\ (pc' = "discover" /\ pc # "discover") => pc = "connect"
       /\ (pc = "failed" /\ pc' # "terminated") => pc' = "connect"]_vars

\* a later attempt, begun after a backoff wait, is in its event loop with nothing read yet
C14_Witness ==
    /\ pc = "stream"
    /\ lastWait > 0
    /\ trace = << >>
    /\ DOMAIN layoutMap = {}
    /\ currentWindowId = << >>
    /\ currentLayout = -1

\* C15: after a focus event whose switch command succeeded, the current layout
\* is the index that command carried.
C15_CurrentLayoutFollowsSwitch ==
    [][(EventStep /\ Len(cmds') = Len(cmds) + 1 /\ pc' = "stream")
            => currentLayout' = Last(cmds')]_vars

\* the line is a layout notification, and the keymap it names
IsLayoutLine(data) == ContainsDelim(data) /\ TextBefore(data) = ActiveLayoutName
LayoutNameOf(data) == Last(CutAtCommas(TextAfter(data)))

\* the window the last focus line before position k of the trace names, none when there is no such line
WindowAt(k) ==
    LET fs == {j \in 1..(k - 1) : IsFocusLine(trace[j])}
    IN  IF fs = {} THEN << >> ELSE FocusId(trace[Max(fs)])

\* the positions of the layout lines read while w was the current window
WritesFor(w) == {k \in 1..Len(trace) : IsLayoutLine(trace[k]) /\ WindowAt(k) = w}

\* index i is what the name table of discovery gives for the name, 0 for a name it does not hold
ResolvesTo(name, i) ==
    \/ \E j \in 1..Len(layouts) : layouts[j] = name /\ i = j - 1
    \/ (\A j \in 1..Len(layouts) : layouts[j] # name) /\ i = 0

\* C16: within an attempt the map holds exactly the windows that were current
\* when a layout event was processed, each with the index of the latest such
\* event; right after such an event the current layout is the current
\* window's entry.
C16_LatestWriteWins ==
    (pc = "stream" \/ (pc = "failed" /\ err \in {"read", "switch"})) =>
        /\ \A w \in DOMAIN layoutMap :
                /\ w # << >>
                /\ WritesFor(w) # {}
                /\ ResolvesTo(LayoutNameOf(trace[Max(WritesFor(w))]), layoutMap[w])
        /\ \A k \in 1..Len(trace) :
                (IsLayoutLine(trace[k]) /\ WindowAt(k) # << >>) => WindowAt(k) \in DOMAIN layoutMap
        /\ (trace # << >> /\ IsLayoutLine(Last(trace)) /\ currentWindowId # << >>) =>
                /\ currentWindowId \in DOMAIN layoutMap
                /\ currentLayout = layoutMap[currentWindowId]

\* W1 got layout us, then layout en: the later index stands
C16_Witness ==
    /\ pc = "stream"
    /\ layouts = <<En, Us>>
    /\ trace = <<LineW1, LineUs, LineEn>>
    /\ layoutMap[<<"W1">>] = 0
    /\ currentLayout = 0

\* C17: a layout event processed while no window is current (at the start, or
\* after a focus event with an empty window id) changes neither the current
\* layout nor the map and issues no command; an event of any other name
\* changes no tracker state.
C17_IgnoredEvents ==
    [][/\ (EventStep /\ IsLayoutLine(Last(trace')) /\ currentWindowId = << >>) =>
            /\ currentLayout' = currentLayout
            /\ layoutMap' = layoutMap
            /\ currentWindowId' = currentWindowId
            /\ cmds' = cmds
            /\ pc' = "stream"
       /\ (/\ EventStep
           /\ ContainsDelim(Last(trace'))
           /\ ~IsLayoutLine(Last(trace'))
           /\ ~IsFocusLine(Last(trace'))) =>
            /\ currentLayout' = currentLayout
            /\ layoutMap' = layoutMap
            /\ currentWindowId' = currentWindowId
            /\ cmds' = cmds
            /\ pc' = "stream"]_vars

\* the focus went to the empty window id, a layout event was ignored there, then an unknown event
C17_Witness ==
    /\ pc = "stream"
    /\ trace = <<LineW1, LineWEmpty, LineUs, LineOther>>
    /\ currentWindowId = << >>
    /\ currentLayout = -1
    /\ DOMAIN layoutMap = {}
    /\ cmds = <<0, 0>>

\* C18: when the switch command of a focus event fails, the attempt ends with
\* the tracker's state as it was before the event.
C18_FailedSwitchLeavesState ==
    [][(EventStep /\ pc' = "failed" /\ err' = "switch")
            => (/\ currentWindowId' = currentWindowId
                /\ currentLayout' = currentLayout
                /\ layoutMap' = layoutMap)]_vars

(***************************************************************************)
(* Discovery alone: ReadLayouts on every keyboard set of a bounded shape   *)
(***************************************************************************)
\* the number of layouts configured on the keyboards
DiscoverLayouts == 3

KeymapNames == {<<"ka">>, <<"kb">>, <<"kc">>}

\* what a keyboard reports on a layout outside its configured list
StrangeKeymap == <<"strange">>

\* the Layout string of n short names: s,s,...,s
ShortNames(n) == [i \in 1..(2 * n - 1) |-> IF i % 2 = 1 THEN "s" ELSE ","]

\* every keyboard of DiscoverLayouts layouts over the names, flagged main or not
ScanKeyboards ==
    {[Layout  |-> ShortNames(DiscoverLayouts),
      Keymaps |-> names \o <<StrangeKeymap>>,
      Main    |-> m] : names \in [1..DiscoverLayouts -> KeymapNames], m \in BOOLEAN}

\* a second keyboard, never main, with names of its own
ScanAux ==
    [Layout  |-> ShortNames(DiscoverLayouts),
     Keymaps |-> [i \in 1..(DiscoverLayouts + 1) |-> <<"aux">>],
     Main    |-> FALSE]

\* the keyboard sets discovery is run on: one keyboard, or one keyboard and the second one in either order
DiscoverConfigs ==
    {<<kb>> : kb \in ScanKeyboards}
        \cup {<<ScanAux, kb>> : kb \in ScanKeyboards}
        \cup {<<kb, ScanAux>> : kb \in ScanKeyboards}

\* the switch commands ReadLayouts issues when every hyprctl call succeeds: the scan, then the restore
ReadLayoutsCmds(kbs, d) ==
    LET n == NumLayouts(kbs, d)
        a == ActiveLayoutIdx(kbs, d)
    IN  [i \in 1..n |-> i - 1] \o (IF a = -1 THEN << >> ELSE <<a>>)

InitDiscover ==
    /\ pc = "discover"
    /\ retry = 0
    /\ lastWait = 0
    /\ failRun = 0
    /\ exit = "none"
    /\ err = "none"
    /\ keyboards \in DiscoverConfigs
    /\ device \in 0..DiscoverLayouts
    /\ layouts = << >>
    /\ currentWindowId = EmptyString
    /\ currentLayout = UnsetLayout
    /\ layoutMap = EmptyMap
    /\ trace = << >>
    /\ evt = NoEvent
    /\ cmds = << >>
    /\ queue = << >>
    /\ focused = EmptyString
    /\ changes = {}

\* ReadLayouts returns the list, every hyprctl call having succeeded
ScanLayouts ==
    /\ pc = "discover"
    /\ layouts' = ReadLayouts(keyboards, device).result
    /\ device' = ReadLayouts(keyboards, device).device
    /\ cmds' = ReadLayoutsCmds(keyboards, device)
    /\ currentWindowId' = EmptyString
    /\ currentLayout' = UnsetLayout
    /\ layoutMap' = NewLayoutMap(layoutMap)
    /\ pc' = "stream"
    /\ UNCHANGED <<supervisorVars, failRun, err, trace, evt, envVars>>

\* ReadLayouts returns an error: j commands were issued, the first s of them took effect
ScanFail ==
    /\ pc = "discover"
    /\ LET full == ReadLayoutsCmds(keyboards, device)
       IN  \E j \in 0..Len(full) :
            \E s \in {j - 1, j} \cap (0..j) :
                /\ ~(s = Len(full) /\ ActiveLayoutIdx(keyboards, device) # -1)
                /\ cmds' = SubSeq(full, 1, j)
                /\ device' = IF s = 0 THEN device ELSE full[s]
    /\ pc' = "failed"
    /\ err' = "discover"
    /\ failRun' = failRun + 1
    /\ UNCHANGED <<supervisorVars, layouts, trackerVars, trace, evt, envVars>>

NextDiscover == ScanLayouts \/ ScanFail

SpecDiscover == InitDiscover /\ [][NextDiscover]_vars

(***************************************************************************)
(* C12, C13, C19: discovery                                                *)
(***************************************************************************)
\* ReadLayouts returned its list in this step
ScanStep == pc = "discover" /\ pc' = "stream"

\* the keyboard discovery is to consult: the first one flagged main, the first one when none is
ConsultedKb ==
    IF \E k \in 1..Len(keyboards) : keyboards[k].Main
    THEN keyboards[Min({k \in 1..Len(keyboards) : keyboards[k].Main})]
    ELSE keyboards[1]

\* the number of short names it is configured with
ConfiguredCount == Len(CutAtCommas(ConsultedKb.Layout))

\* the keymap name it reports while layout index i is active
NameAt(i) == ConsultedKb.Keymaps[i + 1]

\* the indexes whose name is the one reported while index d was active
MatchingIndexes(d) == {i \in 0..(ConfiguredCount - 1) : NameAt(i) = NameAt(d)}

NamesDistinct ==
    \A i, j \in 0..(ConfiguredCount - 1) : NameAt(i) = NameAt(j) => i = j

\* C12: with a controller that reports the name at position i after
\* switch-to-i (names pairwise distinct), ReadLayouts returns the names in
\* index order and leaves the device on the index it was on before.
C12_DiscoveryRoundTrip ==
    [][(ScanStep /\ NamesDistinct /\ device < ConfiguredCount) =>
            /\ Len(layouts') = ConfiguredCount
            /\ \A i \in 1..ConfiguredCount : layouts'[i] = NameAt(i - 1)
            /\ device' = device]_vars

\* C13: when no keyboard is flagged main, the list holds at position i the
\* first keyboard's name after switch-to-i, and the device is switched back
\* when one of these names is the first keyboard's name before the scan.
C13_FirstDeviceWhenNoMain ==
    [][(ScanStep /\ \A k \in 1..Len(keyboards) : ~keyboards[k].Main) =>
            /\ Len(layouts') = ConfiguredCount
            /\ \A i \in 1..ConfiguredCount : layouts'[i] = keyboards[1].Keymaps[i]
            /\ MatchingIndexes(device) # {} =>
                    (Len(cmds') = ConfiguredCount + 1 /\ device' \in MatchingIndexes(device))]_vars

\* C19: when no scanned index reports the name active before the scan,
\* ReadLayouts returns the whole list, issues the scan commands only and
\* leaves the device on the last index; otherwise it issues exactly one more
\* command, after the whole scan, that switches back.
C19_RestoreAfterScan ==
    [][ScanStep =>
            /\ Len(layouts') = ConfiguredCount
            /\ \A i \in 1..ConfiguredCount : layouts'[i] = NameAt(i - 1)
            /\ SubSeq(cmds', 1, ConfiguredCount) = [i \in 1..ConfiguredCount |-> i - 1]
            /\ IF MatchingIndexes(device) = {}
               THEN /\ Len(cmds') = ConfiguredCount
                    /\ device' = ConfiguredCount - 1
               ELSE /\ Len(cmds') = ConfiguredCount + 1
                    /\ Last(cmds') \in MatchingIndexes(device)
                    /\ device' = Last(cmds')]_vars

(***************************************************************************)
(* The tracker beside the compositor: the compositor writes a line for     *)
(* every focus change and every layout change, the tracker reads them at   *)
(* its own pace; hyprctl switchxkblayout returns once the compositor has   *)
(* applied the command.                                                    *)
(***************************************************************************)
\* lines the socket holds unread
MaxQueue == 3

AsyncWindows == {<<"W1">>, <<"W2">>}

\* activewindowv2>>WINDOW
FocusLine(w) == <<"activewindowv2", ">", ">">> \o w

\* activelayout>>KEYBOARD,KEYMAP for the main keyboard on layout index i
LayoutLine(kbs, i) ==
    <<"activelayout", ">", ">", "kb", ",">> \o MainKb(DevicesResponse(kbs, i)).ActiveKeymap

InitAsync ==
    /\ pc = "stream"
    /\ retry = 0
    /\ lastWait = 0
    /\ failRun = 0
    /\ exit = "none"
    /\ err = "none"
    /\ keyboards \in {kbs \in Configs : Len(kbs) > 0}
    /\ \E d \in 0..1 :
        /\ layouts = ReadLayouts(keyboards, d).result
        /\ device = ReadLayouts(keyboards, d).device
    /\ currentWindowId = EmptyString
    /\ currentLayout = UnsetLayout
    /\ layoutMap = EmptyMap
    /\ trace = << >>
    /\ evt = NoEvent
    /\ cmds = << >>
    /\ queue = << >>
    /\ focused \in AsyncWindows
    /\ changes = {}

\* the user moves the focus to another window
UserFocus ==
    /\ Len(queue) < MaxQueue
    /\ \E w \in AsyncWindows \ {focused} :
        /\ focused' = w
        /\ queue' = Append(queue, FocusLine(w))
    /\ UNCHANGED <<pc, supervisorVars, failRun, err, device, layouts, trackerVars,
                   trace, evt, cmds, keyboards, changes>>

\* the user changes the layout
UserLayout ==
    /\ Len(queue) < MaxQueue
    /\ \E i \in (0..(Len(layouts) - 1)) \ {device} :
        /\ device' = i
        /\ changes' = changes \cup {<<focused, i>>}
        /\ queue' = Append(queue, LayoutLine(keyboards, i))
    /\ UNCHANGED <<pc, supervisorVars, failRun, err, layouts, trackerVars,
                   trace, evt, cmds, keyboards, focused>>

\* one iteration of the event loop on an activelayout line of the socket
AsyncActiveLayout ==
    /\ pc = "stream"
    /\ queue # << >>
    /\ ReadEvent(Head(queue)).kind = "ok"
    /\ ReadEvent(Head(queue)).evt.Name = ActiveLayoutName
    /\ queue' = Tail(queue)
    /\ evt' = ReadEvent(Head(queue)).evt
    /\ LET idx == LayoutToIndex(layouts, Last(ReadEvent(Head(queue)).evt.Args))
       IN  IF WindowUnset(currentWindowId)
           THEN UNCHANGED <<currentLayout, layoutMap>>
           ELSE /\ currentLayout' = idx
                /\ layoutMap' = MapSet(layoutMap, currentWindowId, idx)
    /\ retry' = ResetRetry
    /\ failRun' = 0
    /\ UNCHANGED <<pc, lastWait, exit, err, device, layouts, currentWindowId,
                   trace, cmds, keyboards, focused, changes>>

\* one iteration of the event loop on an activewindowv2 line of the socket; the
\* compositor applies a switch command that succeeds, and reports the change it makes
AsyncActiveWindow ==
    /\ pc = "stream"
    /\ queue # << >>
    /\ ReadEvent(Head(queue)).kind = "ok"
    /\ ReadEvent(Head(queue)).evt.Name = ActiveWindowName
    /\ evt' = ReadEvent(Head(queue)).evt
    /\ \E ok \in BOOLEAN :
        LET newWindowId  == Last(ReadEvent(Head(queue)).evt.Args)
            windowLayout == WindowLayout(layoutMap, newWindowId)
        IN  IF SameWindow(currentWindowId, newWindowId)
            THEN /\ queue' = Tail(queue)
                 /\ failRun' = 0
                 /\ UNCHANGED <<pc, err, device, currentWindowId, changes>>
            ELSE /\ currentWindowId' = newWindowId
                 /\ IF SkipSwitch(windowLayout, currentLayout)
                    THEN /\ queue' = Tail(queue)
                         /\ failRun' = 0
                         /\ UNCHANGED <<pc, err, device, changes>>
                    ELSE IF ok
                         THEN /\ device' = windowLayout
                              /\ IF device # windowLayout
                                 THEN /\ changes' = changes \cup {<<focused, windowLayout>>}
                                      /\ queue' = Append(Tail(queue), LayoutLine(keyboards, windowLayout))
                                 ELSE /\ queue' = Tail(queue)
                                      /\ UNCHANGED changes
                              /\ failRun' = 0
                              /\ UNCHANGED <<pc, err>>
                         ELSE /\ pc' = "failed"
                              /\ err' = "switch"
                              /\ failRun' = 1
                              /\ queue' = Tail(queue)
                              /\ UNCHANGED <<device, changes>>
    /\ retry' = ResetRetry
    /\ UNCHANGED <<lastWait, exit, layouts, currentLayout, layoutMap, trace, cmds,
                   keyboards, focused>>

NextAsync ==
    \/ UserFocus
    \/ UserLayout
    \/ AsyncActiveLayout
    \/ AsyncActiveWindow

SpecAsync == InitAsync /\ [][NextAsync]_vars

\* C20: every entry of the map, window w with index i, stands for a layout
\* change to i that took place in the compositor while w had the focus.
C20_AttributionUnderInterleaving ==
    \A w \in DOMAIN layoutMap : <<w, layoutMap[w]>> \in changes

====
